---- MODULE Spec2Model ----
(***************************************************************************)
(* Model of the WaterCrawl Go client's event-stream monitor and scrape     *)
(* orchestrator (src/api.go): Client.ScrapeURL (the consumer), the         *)
(* goroutine started by Client.MonitorCrawlRequest (the producer), the     *)
(* unbuffered channel between them, the governing context, and             *)
(* Client.DownloadCrawlRequest (the result fetcher).                       *)
(***************************************************************************)
EXTENDS Integers, Sequences, FiniteSets, TLC

\* Most lines the status stream yields before it ends.
MaxLines == 2

----------------------------------------------------------------------------
(* JSON values as Go sees them after json.Unmarshal into interface{}.      *)
(* A field of an object is a scalar: absent, a string or a number.         *)

Absent == [t |-> "absent", s |-> "", n |-> 0]
S(x) == [t |-> "string", s |-> x, n |-> 0]
N(x) == [t |-> "number", s |-> "", n |-> x]

\* shape: "object" (a non-nil map), "nilmap" (a nil map[string]interface{}),
\* "array", "string", "null" (a nil interface{}).
Val(shape, status, progress, content, uuid, items, wrapped) ==
    [shape |-> shape, status |-> status, progress |-> progress,
     content |-> content, uuid |-> uuid, items |-> items, wrapped |-> wrapped,
     error |-> Absent]

NullV == Val("null", Absent, Absent, Absent, Absent, <<>>, FALSE)
NilMap == Val("nilmap", Absent, Absent, Absent, Absent, <<>>, FALSE)
StrV(x) == Val("string", Absent, Absent, S(x), Absent, <<>>, FALSE)
ArrV(items) == Val("array", Absent, Absent, Absent, Absent, items, FALSE)
ObjV(status, progress, content) ==
    Val("object", status, progress, content, Absent, <<>>, FALSE)
EmptyObj == ObjV(Absent, Absent, Absent)

\* event.Data.(map[string]interface{}): true of every map, a nil one included.
IsMap(v) == v.shape \in {"object", "nilmap"}

\* len(m) of a map: the number of keys it holds.
MapLen(v) ==
    IF v.shape # "object" THEN 0
    ELSE Cardinality({k \in {"status", "progress", "content", "uuid",
                              "error"} : v[k].t # "absent"})
         + (IF v.wrapped THEN 1 ELSE 0)

----------------------------------------------------------------------------
(* Errors: the error values ScrapeURL and its callees return.              *)

Err(kind, status, cite, count, progress) ==
    [kind |-> kind, status |-> status, cite |-> cite, count |-> count,
     progress |-> progress, field |-> <<>>, message |-> "", code |-> 0]
ErrNil == Err("nil", "", NullV, 0, 0)
ErrRequest == Err("request", "", NullV, 0, 0)
ErrUnmarshal == Err("unmarshal", "", NullV, 0, 0)
ErrCrawlFailed(status) == Err("crawlFailed", status, NullV, 0, 0)
ErrNoEvents == Err("noEvents", "", NullV, 0, 0)
ErrLastError(v) == Err("lastError", "", v, 0, 0)
ErrNoResult(count, progress) == Err("noResult", "", NullV, count, progress)

\* A (value, error) pair as a Go function returns it.
Pair(v, e) == [val |-> v, err |-> e]

----------------------------------------------------------------------------
(* CreateCrawlRequestInput.URL and its validation.                         *)

\* Most elements of a URL list.
MaxUrls == 3

\* input.URL is an interface{}: nil, a string, a []string (a nil slice is
\* the list of length 0), or a value of another type.
URLValue(kind, str, list) == [kind |-> kind, str |-> str, list |-> list]
NilURL == URLValue("nil", "", <<>>)
StrURL(str) == URLValue("string", str, <<>>)
ListURL(list) == URLValue("strings", "", list)
OtherURL == URLValue("other", "", <<>>)

URLStrings == {"", "https://example.com", "https://example.org"}
URLLists == UNION {[1..n -> URLStrings] : n \in 0..MaxUrls}
URLValues ==
    {NilURL, OtherURL} \cup {StrURL(str) : str \in URLStrings}
        \cup {ListURL(list) : list \in URLLists}

\* &ValidationError{Field: field, Message: message}
ValidationError(field, message) ==
    [Err("validation", "", NullV, 0, 0)
        EXCEPT !.field = field, !.message = message]

\* ValidationError.Error()
ErrorText(e) ==
    <<"watercrawl: validation error: ">> \o e.field \o <<": ", e.message>>

\* %d of fmt.Sprintf: the decimal digits of i.
Digits == <<"0", "1", "2", "3", "4", "5", "6", "7", "8", "9">>
RECURSIVE Itoa(_)
Itoa(i) ==
    IF i < Len(Digits) THEN <<Digits[i + 1]>>
    ELSE Itoa(i \div Len(Digits)) \o <<Digits[(i % Len(Digits)) + 1]>>

\* fmt.Sprintf("url[%d]", i)
IndexedField(i) == <<"url", "[">> \o Itoa(i) \o <<"]">>

\* A loop that goes through the whole list and reports the last empty
\* element it met.
RECURSIVE ScanElementsLast(_, _)
ScanElementsLast(list, i) ==
    IF i >= Len(list) THEN ErrNil
    ELSE LET rest == ScanElementsLast(list, i + 1)
         IN  IF rest # ErrNil THEN rest
             ELSE IF list[i + 1] = ""
             THEN ValidationError(IndexedField(i), "URL cannot be empty")
             ELSE ErrNil

\* for i, u := range v, from index i on: returns at the first empty element.
RECURSIVE ScanElements(_, _)
ScanElements(list, i) ==
    IF i >= Len(list) THEN ErrNil
    ELSE IF list[i + 1] = ""
    THEN ValidationError(IndexedField(i), "URL cannot be empty")
    ELSE ScanElements(list, i + 1)

\* A validation that does not look at the elements of a list.
ValidateListUnscanned(u) ==
    IF u.kind = "nil" THEN ValidationError(<<"url">>, "URL is required")
    ELSE IF u.kind = "string" /\ u.str = ""
    THEN ValidationError(<<"url">>, "URL cannot be empty")
    ELSE IF u.kind = "strings" /\ Len(u.list) = 0
    THEN ValidationError(<<"url">>, "URL list cannot be empty")
    ELSE IF u.kind = "other"
    THEN ValidationError(<<"url">>,
                         "URL must be a string or array of strings")
    ELSE ErrNil

\* CreateCrawlRequest's validation of input.URL: the error it returns
\* before any request, or ErrNil when it goes on to the request.
Validate(u) ==
    IF u.kind = "nil" THEN ValidationError(<<"url">>, "URL is required")
    ELSE IF u.kind = "string"
    THEN IF u.str = ""
         THEN ValidationError(<<"url">>, "URL cannot be empty")
         ELSE ErrNil
    ELSE IF u.kind = "strings"
    THEN IF Len(u.list) = 0
         THEN ValidationError(<<"url">>, "URL list cannot be empty")
         ELSE ScanElements(u.list, 0)
    ELSE ValidationError(<<"url">>,
                         "URL must be a string or array of strings")

----------------------------------------------------------------------------
(* Events and wire lines.                                                  *)

Event(type, data) == [type |-> type, data |-> data]
ZeroEvent == Event("", NullV)

EvResult == Event("result", ObjV(Absent, Absent, S("x")))
EvResultStr == Event("result", StrV("x"))
EvError == Event("error", StrV("boom"))
EvErrorNull == Event("error", NullV)
EvProgress == Event("progress", ObjV(Absent, N(50), Absent))
EvProgressStr == Event("progress", ObjV(Absent, S("half"), Absent))
EvRunning == Event("state", ObjV(S("running"), Absent, Absent))
EvCompleted == Event("state", ObjV(S("completed"), Absent, Absent))
EvFailed == Event("state", ObjV(S("failed"), Absent, Absent))
EvStateStr == Event("state", StrV("completed"))
EvDone == Event("completed", NullV)
EvPing == Event("ping", NullV)

Events == {EvResult, EvResultStr, EvError, EvErrorNull, EvProgress,
           EvProgressStr, EvRunning, EvCompleted, EvFailed, EvStateStr,
           EvDone, EvPing}

\* A line is a sequence of tokens: white space, the data: marker, a JSON
\* document that decodes as an event, malformed JSON, or other text.
Tok(t, ev) == [t |-> t, ev |-> ev]
Sp == Tok("sp", ZeroEvent)
Marker == Tok("data:", ZeroEvent)
Json(ev) == Tok("json", ev)
Bad == Tok("bad", ZeroEvent)
Text == Tok("text", ZeroEvent)

DataLine(ev) == <<Marker, Sp, Json(ev)>>
Lines == {DataLine(ev) : ev \in Events}
           \cup {<<>>, <<Text>>, <<Marker, Sp, Bad>>, <<Json(EvResult)>>}

\* The texts a stream can end with after its last newline.
TailLines == {DataLine(EvResult), <<Text>>}

RECURSIVE TrimLeft(_)
TrimLeft(s) == IF s # <<>> /\ Head(s).t = "sp" THEN TrimLeft(Tail(s)) ELSE s
RECURSIVE TrimRight(_)
TrimRight(s) ==
    IF s # <<>> /\ s[Len(s)].t = "sp"
    THEN TrimRight(SubSeq(s, 1, Len(s) - 1)) ELSE s
TrimSpace(s) == TrimRight(TrimLeft(s))

HasDataPrefix(s) == s # <<>> /\ Head(s).t = "data:"
TrimDataPrefix(s) == IF HasDataPrefix(s) THEN Tail(s) ELSE s

\* A decoder that takes a malformed document for an empty event.
UnmarshalEventLenient(s) ==
    [ok |-> TRUE, ev |-> IF Len(s) = 1 /\ s[1].t = "json" THEN s[1].ev
                         ELSE ZeroEvent]

\* json.Unmarshal([]byte(jsonData), &event)
UnmarshalEvent(s) ==
    IF Len(s) = 1 /\ s[1].t = "json"
    THEN [ok |-> TRUE, ev |-> s[1].ev]
    ELSE [ok |-> FALSE, ev |-> ZeroEvent]

\* A decoder that does not ask for the data: marker.
DecodeLineNoMarker(raw) ==
    LET r == UnmarshalEvent(TrimSpace(TrimDataPrefix(TrimSpace(raw))))
    IN  [emit |-> r.ok, ev |-> r.ev]

\* What the producer makes of one line: an event to emit, or nothing.
DecodeLine(raw) ==
    LET line == TrimSpace(raw)
    IN  IF line = <<>> THEN [emit |-> FALSE, ev |-> ZeroEvent]
        ELSE IF HasDataPrefix(line)
        THEN LET r == UnmarshalEvent(TrimSpace(TrimDataPrefix(line)))
             IN  [emit |-> r.ok, ev |-> r.ev]
        ELSE [emit |-> FALSE, ev |-> ZeroEvent]

----------------------------------------------------------------------------
(* The download endpoint's responses and DownloadCrawlRequest.             *)

Resp(ok, body, val) == [ok |-> ok, body |-> body, val |-> val]
RespObject == Resp(TRUE, "object", ObjV(Absent, Absent, S("full")))
RespEmptyObject == Resp(TRUE, "object", EmptyObj)
RespArray == Resp(TRUE, "array", ArrV(<<"a", "b">>))
RespNull == Resp(TRUE, "null", NullV)
RespScalar == Resp(TRUE, "scalar", StrV("x"))
RespEmpty == Resp(TRUE, "empty", NullV)
RespMalformed == Resp(TRUE, "malformed", NullV)
RespFail == Resp(FALSE, "none", NullV)
\* No response within the 30 seconds of the download's context.
RespTimeout == Resp(FALSE, "timeout", NullV)
Responses == {RespObject, RespEmptyObject, RespArray, RespNull, RespScalar,
              RespEmpty, RespMalformed, RespFail,
              RespTimeout}

\* The items of an array, last first.
RECURSIVE Reversed(_)
Reversed(items) ==
    IF items = <<>> THEN <<>>
    ELSE Append(Reversed(Tail(items)), Head(items))

\* A wrapping that does not keep the order of the elements.
WrapResultsReversed(arr) ==
    Val("object", Absent, Absent, Absent, Absent, Reversed(arr.items), TRUE)

\* map[string]interface{}{"results": resultArray}
WrapResults(arr) ==
    Val("object", Absent, Absent, Absent, Absent, arr.items, TRUE)

\* json.Unmarshal(body, &resultObj): a JSON object fills the map, JSON null
\* leaves it nil without an error, anything else is an error.
UnmarshalMap(resp) ==
    IF resp.body = "object" THEN [ok |-> TRUE, val |-> resp.val]
    ELSE IF resp.body = "null" THEN [ok |-> TRUE, val |-> NilMap]
    ELSE [ok |-> FALSE, val |-> NilMap]

\* json.Unmarshal(body, &resultArray), tried when the map attempt failed.
UnmarshalArray(resp) ==
    IF resp.body = "array" THEN [ok |-> TRUE, val |-> resp.val]
    ELSE [ok |-> FALSE, val |-> NullV]

DownloadCrawlRequest(resp) ==
    IF ~resp.ok THEN Pair(NilMap, ErrRequest)
    ELSE LET m == UnmarshalMap(resp)
         IN  IF m.ok THEN Pair(m.val, ErrNil)
             ELSE LET a == UnmarshalArray(resp)
                  IN  IF a.ok THEN Pair(WrapResults(a.val), ErrNil)
                      ELSE Pair(NilMap, ErrUnmarshal)

----------------------------------------------------------------------------
(* HTTP responses and processResponse.                                     *)

\* http.StatusNoContent
StatusNoContent == 204
\* The status code from which processResponse reports an API error.
StatusErrorFloor == 400

Statuses == {200, StatusNoContent, 304, StatusErrorFloor, 500}

\* A response body: its text, its top-level JSON kind ("empty", "text" for
\* what is not JSON, "null", "object") and the keys of the object that the
\* client reads.
HTTPBody(raw, kind, error, uuid, status) ==
    [raw |-> raw, kind |-> kind, error |-> error, uuid |-> uuid,
     status |-> status]
BodyEmpty == HTTPBody("", "empty", Absent, Absent, Absent)
BodyText == HTTPBody("Internal Server Error", "text", Absent, Absent, Absent)
BodyNull == HTTPBody("null", "null", Absent, Absent, Absent)
BodyError ==
    HTTPBody("{\"error\":\"Invalid request parameters\"}", "object",
             S("Invalid request parameters"), Absent, Absent)
BodyErrorEmpty == HTTPBody("{\"error\":\"\"}", "object", S(""), Absent, Absent)
BodyErrorNumber == HTTPBody("{\"error\":42}", "object", N(42), Absent, Absent)
BodyJob ==
    HTTPBody("{\"uuid\":\"test-uuid\",\"status\":\"pending\"}", "object",
             Absent, S("test-uuid"), S("pending"))
Bodies == {BodyEmpty, BodyText, BodyNull, BodyError, BodyErrorEmpty,
           BodyErrorNumber, BodyJob}

HTTPResponse(status, b) == [status |-> status, body |-> b]
NoResponse == HTTPResponse(0, BodyEmpty)
HTTPResponses == {HTTPResponse(status, b) : status \in Statuses, b \in Bodies}

\* &APIError{StatusCode: code, Message: message}
APIError(code, message) ==
    [Err("api", "", NullV, 0, 0) EXCEPT !.code = code, !.message = message]

\* A decoding of the error body that never finds a message.
UnmarshalAPIErrorNone(b) == [ok |-> FALSE, Error |-> ""]

\* json.Unmarshal(body, &apiErr) with apiErr a struct{ Error string }: the
\* error is nil for an object whose "error" key is absent or a string and
\* for null; Error is the string, or "" when nothing was stored.
UnmarshalAPIError(b) ==
    IF b.kind = "null" THEN [ok |-> TRUE, Error |-> ""]
    ELSE IF b.kind = "object" /\ b.error.t \in {"absent", "string"}
    THEN [ok |-> TRUE, Error |-> b.error.s]
    ELSE [ok |-> FALSE, Error |-> ""]

\* fmt.Sprintf("HTTP error %d", resp.StatusCode)
HTTPErrorText(code) ==
    CASE code = 400 -> "HTTP error 400"
      [] code = 500 -> "HTTP error 500"
      [] OTHER -> "HTTP error"

\* The destination of processResponse: nil, or a pointer to a result whose
\* fields are zero before the call.
NoDest == NullV
ZeroDest == Val("object", S(""), N(0), Absent, S(""), <<>>, FALSE)

\* json.Unmarshal(body, v) into a result struct: an object stores the keys
\* it has, null stores nothing, anything else is an error.
UnmarshalDest(b, v) ==
    IF b.kind = "object"
    THEN [ok |-> TRUE,
          v |-> [v EXCEPT !.uuid = IF b.uuid.t = "string" THEN b.uuid ELSE @,
                          !.status = IF b.status.t = "string" THEN b.status
                                     ELSE @]]
    ELSE IF b.kind = "null" THEN [ok |-> TRUE, v |-> v]
    ELSE [ok |-> FALSE, v |-> v]

\* A processResponse without the early return on 204.
ProcessResponseDecoding(resp, v) ==
    IF resp.status >= StatusErrorFloor
    THEN [err |-> APIError(resp.status, resp.body.raw), v |-> v, closes |-> 1]
    ELSE IF v = NoDest THEN [err |-> ErrNil, v |-> v, closes |-> 1]
    ELSE LET u == UnmarshalDest(resp.body, v)
         IN  [err |-> IF u.ok THEN ErrNil ELSE ErrUnmarshal, v |-> u.v,
              closes |-> 1]

\* processResponse(resp, v): the error returned, the destination after the
\* call, and the calls of resp.Body.Close() (the deferred one).
ProcessResponse(resp, v) ==
    IF resp.status = StatusNoContent
    THEN [err |-> ErrNil, v |-> v, closes |-> 1]
    ELSE IF resp.status >= StatusErrorFloor
    THEN LET a == UnmarshalAPIError(resp.body)
         IN  IF a.ok /\ a.Error # ""
             THEN [err |-> APIError(resp.status, a.Error), v |-> v,
                   closes |-> 1]
             ELSE [err |-> APIError(resp.status,
                                    IF resp.body.raw = ""
                                    THEN HTTPErrorText(resp.status)
                                    ELSE resp.body.raw),
                   v |-> v, closes |-> 1]
    ELSE IF v = NoDest THEN [err |-> ErrNil, v |-> v, closes |-> 1]
    ELSE LET u == UnmarshalDest(resp.body, v)
         IN  [err |-> IF u.ok THEN ErrNil ELSE ErrUnmarshal, v |-> u.v,
              closes |-> 1]

\* The body as DownloadCrawlRequest reads it; the status code is not looked
\* at.
DownloadBody(resp) ==
    IF resp.body.kind = "object"
    THEN Resp(TRUE, "object",
              [EmptyObj EXCEPT !.error = resp.body.error,
                               !.uuid = resp.body.uuid,
                               !.status = resp.body.status])
    ELSE IF resp.body.kind = "null" THEN RespNull
    ELSE IF resp.body.kind = "empty" THEN RespEmpty
    ELSE RespMalformed

----------------------------------------------------------------------------
(* State.                                                                  *)

VARIABLES
    call,           \* the operation of the client that is called
    apiKey,         \* the key the client was built with
    input,          \* CreateCrawlRequest's input.URL
    url,            \* ScrapeURL's url argument
    sync,           \* ScrapeURL's sync argument
    download,       \* ScrapeURL's download argument
    cancelled,      \* ctx.Done() is closed
    cpc,            \* where the caller's call is
    ppc,            \* where the monitor goroutine is
    wire,           \* the lines read from the status stream so far
    readEnd,        \* how reading ended: "none", "eof" or "err"
    tail,           \* the text ReadString returned together with io.EOF
    cur,            \* the event the goroutine holds (event)
    delivered,      \* the events received from eventChan so far
    closeCount,     \* calls of resp.Body.Close() on the status stream
    chClosed,       \* close(eventChan) has run
    eventCount, lastProgress, lastError, lastStateData,   \* ScrapeURL's locals
    downloadData,   \* result of ScrapeURL's latest DownloadCrawlRequest
    ret,            \* what the call returned
    nCreate,        \* requests sent to the create endpoint
    nStatus,        \* requests sent to the status endpoint
    mFetches,       \* download requests started by the goroutine
    mDownload,      \* result of the goroutine's latest DownloadCrawlRequest
    fetchCancelled, \* the downloads running since before ctx was cancelled
    body,           \* the response DownloadCrawlRequest got last
    cFetches,       \* download requests started by ScrapeURL
    httpResp,       \* the response the call's own request got
    respCloses,     \* calls of Body.Close() on that response
    sent            \* the requests handed to the HTTP client so far

vars == <<call, apiKey, httpResp, respCloses, sent, tail, input, url, sync,
          download, cancelled, cpc, ppc, wire, readEnd, cur,
          delivered, closeCount, chClosed, eventCount, lastProgress,
          lastError, lastStateData, downloadData, ret, nCreate, nStatus,
          mFetches, mDownload, fetchCancelled, body, cFetches>>

inputVars == <<call, apiKey, input, url, sync, download>>
httpVars == <<httpResp, respCloses, sent>>
foldVars == <<eventCount, lastProgress, lastError, lastStateData>>
consumerVars == <<cpc, delivered, eventCount, lastProgress, lastError,
                  lastStateData, downloadData, ret, cFetches>>
producerVars == <<ppc, wire, readEnd, cur, closeCount, chClosed, mFetches,
                  mDownload>>

\* The operations that send one request and decode its response into a
\* result struct, and the endpoint of each.
DecodingCalls == {"GetCrawlRequests", "GetCrawlRequest",
                  "GetCrawlRequestResults"}
SingleCalls == DecodingCalls \cup {"StopCrawlRequest", "DownloadCrawlRequest"}
Endpoint(c) ==
    CASE c = "GetCrawlRequests" -> "list"
      [] c = "GetCrawlRequest" -> "get"
      [] c = "GetCrawlRequestResults" -> "results"
      [] c = "StopCrawlRequest" -> "stop"
      [] c = "DownloadCrawlRequest" -> "download"
      [] OTHER -> "create"

APIKeys == {"test-api-key", "other-api-key"}

\* Headers that leave the key out.
HeadersKeyless(key) ==
    [XAPIKey |-> "", ContentType |-> "application/json",
     Accept |-> "application/json", UserAgent |-> "WaterCrawl-Go-SDK",
     AcceptLanguage |-> "en-US"]

\* The headers doRequest sets on every request.
Headers(key) ==
    [XAPIKey |-> key, ContentType |-> "application/json",
     Accept |-> "application/json", UserAgent |-> "WaterCrawl-Go-SDK",
     AcceptLanguage |-> "en-US"]

\* The request doRequest builds for an endpoint and hands to httpClient.Do.
DoRequest(endpoint) == [endpoint |-> endpoint, header |-> Headers(apiKey)]

Init ==
    /\ call \in {"ScrapeURL", "CreateCrawlRequest", "MonitorCrawlRequest"}
                \cup SingleCalls
    /\ IF call = "ScrapeURL"
       THEN /\ url \in {"", "https://example.com"}
            /\ sync \in BOOLEAN
            /\ download \in BOOLEAN
            /\ input = StrURL(url)
            /\ apiKey = "test-api-key"
            /\ cpc = "start"
       ELSE IF call = "CreateCrawlRequest"
       THEN /\ url = ""
            /\ sync = FALSE
            /\ download = FALSE
            /\ input \in URLValues
            /\ apiKey \in APIKeys
            /\ cpc = "create"
       ELSE IF call = "MonitorCrawlRequest"
       THEN /\ url = "https://example.com"
            /\ sync = FALSE
            /\ download \in BOOLEAN
            /\ input = StrURL(url)
            /\ apiKey = "test-api-key"
            /\ cpc = "monitor"
       ELSE /\ url = "https://example.com"
            /\ sync = FALSE
            /\ download = FALSE
            /\ input = StrURL(url)
            /\ apiKey \in APIKeys
            /\ cpc = "call"
    /\ httpResp = NoResponse
    /\ respCloses = 0
    /\ sent = {}
    /\ cancelled = FALSE
    /\ ppc = "none"
    /\ wire = <<>>
    /\ readEnd = "none"
    /\ tail = <<>>
    /\ cur = ZeroEvent
    /\ delivered = <<>>
    /\ closeCount = 0
    /\ chClosed = FALSE
    /\ eventCount = 0
    /\ lastProgress = 0
    /\ lastError = NullV
    /\ lastStateData = NilMap
    /\ downloadData = Pair(NilMap, ErrNil)
    /\ ret = Pair(NilMap, ErrNil)
    /\ nCreate = 0
    /\ nStatus = 0
    /\ mFetches = 0
    /\ mDownload = Pair(NilMap, ErrNil)
    /\ fetchCancelled = {}
    /\ body = RespFail
    /\ cFetches = 0

----------------------------------------------------------------------------
(* ScrapeURL's fold over the events: one operator per case of the switch.  *)
(* Each yields the locals after the event, the next position, the value    *)
(* returned if the call returns, and whether a download is started.        *)

Keep(pc) ==
    [pc |-> pc, lastProgress |-> lastProgress, lastError |-> lastError,
     lastStateData |-> lastStateData, ret |-> ret, fetch |-> FALSE]
Return(u, v, e) == [u EXCEPT !.pc = "returned", !.ret = Pair(v, e)]

\* case "result"
FoldResult(ev) ==
    IF IsMap(ev.data) THEN Return(Keep("recv"), ev.data, ErrNil)
    ELSE Keep("recv")

\* An error case that ends the call with the event's payload.
FoldErrorFatal(ev) == Return(Keep("recv"), NilMap, ErrLastError(ev.data))

\* case "error"
FoldError(ev) == [Keep("recv") EXCEPT !.lastError = ev.data]

\* case "progress"
FoldProgress(ev) ==
    IF IsMap(ev.data) /\ ev.data.progress.t = "number"
    THEN [Keep("recv") EXCEPT !.lastProgress = ev.data.progress.n]
    ELSE Keep("recv")

\* FoldState returning the state data on any status, not only completed.
FoldStateAnyStatus(ev) ==
    IF ~IsMap(ev.data) THEN Keep("recv")
    ELSE LET u == [Keep("recv") EXCEPT !.lastStateData = ev.data]
             status == ev.data.status
         IN  IF status.t # "string" THEN u
             ELSE IF status.s = "failed"
             THEN Return(u, NilMap, ErrCrawlFailed(status.s))
             ELSE IF download
             THEN [u EXCEPT !.pc = "fetchState", !.fetch = TRUE]
             ELSE Return(u, ev.data, ErrNil)

\* FoldState without the check for the failed status.
FoldStateNoFailed(ev) ==
    IF ~IsMap(ev.data) THEN Keep("recv")
    ELSE LET u == [Keep("recv") EXCEPT !.lastStateData = ev.data]
             status == ev.data.status
         IN  IF status.t # "string" THEN u
             ELSE IF status.s = "completed"
             THEN IF download
                  THEN [u EXCEPT !.pc = "fetchState", !.fetch = TRUE]
                  ELSE Return(u, ev.data, ErrNil)
             ELSE u

\* case "state"
FoldState(ev) ==
    IF ~IsMap(ev.data) THEN Keep("recv")
    ELSE LET u == [Keep("recv") EXCEPT !.lastStateData = ev.data]
             status == ev.data.status
         IN  IF status.t # "string" THEN u
             ELSE IF status.s = "completed"
             THEN IF download
                  THEN [u EXCEPT !.pc = "fetchState", !.fetch = TRUE]
                  ELSE Return(u, ev.data, ErrNil)
             ELSE IF status.s = "failed"
             THEN Return(u, NilMap, ErrCrawlFailed(status.s))
             ELSE u

\* FoldCompleted downloading whatever the download argument is.
FoldCompletedAlways(ev) == [Keep("fetchCompleted") EXCEPT !.fetch = TRUE]

\* case "completed"
FoldCompleted(ev) ==
    IF download THEN [Keep("fetchCompleted") EXCEPT !.fetch = TRUE]
    ELSE Keep("recv")

Fold(ev) ==
    CASE ev.type = "result" -> FoldResult(ev)
      [] ev.type = "error" -> FoldError(ev)
      [] ev.type = "progress" -> FoldProgress(ev)
      [] ev.type = "state" -> FoldState(ev)
      [] ev.type = "completed" -> FoldCompleted(ev)
      [] OTHER -> Keep("recv")

\* An ending of that download which hands the download's error on.
StateFetchDoneStrict(r) ==
    IF r.err = ErrNil THEN Pair(r.val, ErrNil) ELSE Pair(NilMap, r.err)

\* The download after a state event with status completed has ended with r.
StateFetchDone(r) ==
    IF r.err = ErrNil THEN Pair(r.val, ErrNil)
    ELSE Pair(lastStateData, ErrNil)

\* A test that accepts every download that returned no error.
CompletedFetchAnyOk(r) == r.err = ErrNil

\* Whether the download after a completed event ends the call.
CompletedFetchReturns(r) == r.err = ErrNil /\ MapLen(r.val) > 0

\* AfterLoop with the last error looked at before the state data.
AfterLoopErrorFirst ==
    IF eventCount = 0 THEN Pair(NilMap, ErrNoEvents)
    ELSE IF lastError # NullV THEN Pair(NilMap, ErrLastError(lastError))
    ELSE IF lastStateData # NilMap THEN Pair(lastStateData, ErrNil)
    ELSE Pair(NilMap, ErrNoResult(eventCount, lastProgress))

\* The code after the range loop.
AfterLoop ==
    IF lastStateData # NilMap THEN Pair(lastStateData, ErrNil)
    ELSE IF eventCount = 0 THEN Pair(NilMap, ErrNoEvents)
    ELSE IF lastError # NullV THEN Pair(NilMap, ErrLastError(lastError))
    ELSE Pair(NilMap, ErrNoResult(eventCount, lastProgress))

\* The response of the create endpoint to a request it accepts.
CreatedResponse == HTTPResponse(200, BodyJob)

\* The CrawlRequest decoded from that response.
NewCrawlRequest == ProcessResponse(CreatedResponse, ZeroDest).v

\* A summary that hands on every field of the CrawlRequest.
CreatedSummaryWhole == NewCrawlRequest

\* The {uuid, status} map ScrapeURL returns when sync is false.
CreatedSummary ==
    Val("object", NewCrawlRequest.status, Absent, Absent,
        NewCrawlRequest.uuid, <<>>, FALSE)

----------------------------------------------------------------------------
(* ScrapeURL, up to the range loop.                                        *)

\* An abort that replaces the failure by the generic one.
ScrapeAbortGeneric(err) == Pair(NilMap, ErrNoResult(0, 0))

\* ScrapeURL's "return nil, err" after a failed CreateCrawlRequest or
\* MonitorCrawlRequest.
ScrapeAbort(err) == Pair(NilMap, err)

\* CreateCrawlRequest rejects the URL before any request.
ScrapeInvalid ==
    /\ cpc = "start"
    /\ Validate(input) # ErrNil
    /\ cpc' = "returned"
    /\ ret' = ScrapeAbort(Validate(input))
    /\ UNCHANGED <<inputVars, tail, httpVars, body, fetchCancelled, cancelled,
                   producerVars, delivered, foldVars,
                   downloadData, nCreate, nStatus, cFetches>>

\* The create request fails (always so once ctx is cancelled).
ScrapeCreateFails ==
    /\ cpc = "start"
    /\ Validate(input) = ErrNil
    /\ nCreate' = nCreate + 1
    /\ sent' = sent \cup {DoRequest("create")}
    /\ cpc' = "returned"
    /\ \/ /\ ret' = ScrapeAbort(ErrRequest)
          /\ UNCHANGED <<httpResp, respCloses>>
       \/ /\ ~cancelled
          /\ \E resp \in HTTPResponses :
                LET p == ProcessResponse(resp, ZeroDest)
                IN  /\ p.err # ErrNil
                    /\ httpResp' = resp
                    /\ respCloses' = p.closes
                    /\ ret' = ScrapeAbort(p.err)
    /\ UNCHANGED <<inputVars, tail, body, fetchCancelled, cancelled,
                   producerVars, delivered, foldVars,
                   downloadData, nStatus, cFetches>>

\* The create request succeeds.
ScrapeCreated ==
    /\ cpc = "start"
    /\ Validate(input) = ErrNil
    /\ ~cancelled
    /\ nCreate' = nCreate + 1
    /\ sent' = sent \cup {DoRequest("create")}
    /\ httpResp' = CreatedResponse
    /\ respCloses' = ProcessResponse(CreatedResponse, ZeroDest).closes
    /\ IF sync
       THEN cpc' = "open" /\ ret' = ret
       ELSE cpc' = "returned" /\ ret' = Pair(CreatedSummary, ErrNil)
    /\ UNCHANGED <<inputVars, tail, body, fetchCancelled, cancelled,
                   producerVars, delivered, foldVars,
                   downloadData, nStatus, cFetches>>

\* CreateCrawlRequest called by itself rejects the URL before any request.
CreateCrawlRequestInvalid ==
    /\ cpc = "create"
    /\ Validate(input) # ErrNil
    /\ cpc' = "createReturned"
    /\ ret' = Pair(NilMap, Validate(input))
    /\ UNCHANGED <<inputVars, tail, httpVars, body, fetchCancelled, cancelled,
                   producerVars, delivered, foldVars,
                   downloadData, nCreate, nStatus, cFetches>>

\* CreateCrawlRequest called by itself: the create request fails.
CreateCrawlRequestFails ==
    /\ cpc = "create"
    /\ Validate(input) = ErrNil
    /\ nCreate' = nCreate + 1
    /\ sent' = sent \cup {DoRequest("create")}
    /\ cpc' = "createReturned"
    /\ ret' = Pair(NilMap, ErrRequest)
    /\ UNCHANGED <<inputVars, tail, httpResp, respCloses, body, fetchCancelled,
                   cancelled,
                   producerVars, delivered, foldVars,
                   downloadData, nStatus, cFetches>>

\* CreateCrawlRequest called by itself: the create request is answered.
CreateCrawlRequestDone ==
    /\ cpc = "create"
    /\ Validate(input) = ErrNil
    /\ ~cancelled
    /\ nCreate' = nCreate + 1
    /\ sent' = sent \cup {DoRequest("create")}
    /\ cpc' = "createReturned"
    /\ \E resp \in HTTPResponses :
          LET p == ProcessResponse(resp, ZeroDest)
          IN  /\ httpResp' = resp
              /\ respCloses' = p.closes
              /\ ret' = IF p.err # ErrNil THEN Pair(NilMap, p.err)
                        ELSE Pair(p.v, ErrNil)
    /\ UNCHANGED <<inputVars, tail, body, fetchCancelled, cancelled,
                   producerVars, delivered, foldVars,
                   downloadData, nStatus, cFetches>>

\* An operation that sends one request: doRequest returns an error (always
\* so once ctx is cancelled), which the operation returns as it is.
SingleCallRequestFails ==
    /\ cpc = "call"
    /\ sent' = sent \cup {DoRequest(Endpoint(call))}
    /\ cpc' = "callReturned"
    /\ ret' = Pair(IF call = "DownloadCrawlRequest" THEN NilMap ELSE NullV,
                   ErrRequest)
    /\ UNCHANGED <<inputVars, tail, httpResp, respCloses, body, fetchCancelled,
                   cancelled, producerVars, delivered, foldVars,
                   downloadData, nCreate, nStatus, cFetches>>

\* GetCrawlRequests, GetCrawlRequest and GetCrawlRequestResults: the
\* response goes through processResponse into the result.
DecodingCallDone(c) ==
    /\ cpc = "call"
    /\ call = c
    /\ ~cancelled
    /\ sent' = sent \cup {DoRequest(Endpoint(c))}
    /\ cpc' = "callReturned"
    /\ \E resp \in HTTPResponses :
          LET p == ProcessResponse(resp, ZeroDest)
          IN  /\ httpResp' = resp
              /\ respCloses' = p.closes
              /\ ret' = IF p.err # ErrNil THEN Pair(NullV, p.err)
                        ELSE Pair(p.v, ErrNil)
    /\ UNCHANGED <<inputVars, tail, body, fetchCancelled, cancelled,
                   producerVars, delivered, foldVars,
                   downloadData, nCreate, nStatus, cFetches>>

GetCrawlRequestsDone == DecodingCallDone("GetCrawlRequests")
GetCrawlRequestDone == DecodingCallDone("GetCrawlRequest")
GetCrawlRequestResultsDone == DecodingCallDone("GetCrawlRequestResults")

\* StopCrawlRequest: processResponse with no destination.
StopCrawlRequestDone ==
    /\ cpc = "call"
    /\ call = "StopCrawlRequest"
    /\ ~cancelled
    /\ sent' = sent \cup {DoRequest("stop")}
    /\ cpc' = "callReturned"
    /\ \E resp \in HTTPResponses :
          LET p == ProcessResponse(resp, NoDest)
          IN  /\ httpResp' = resp
              /\ respCloses' = p.closes
              /\ ret' = Pair(p.v, p.err)
    /\ UNCHANGED <<inputVars, tail, body, fetchCancelled, cancelled,
                   producerVars, delivered, foldVars,
                   downloadData, nCreate, nStatus, cFetches>>

\* DownloadCrawlRequest called by itself: the body is read and decoded
\* whatever the status code is.
DownloadCrawlRequestDone ==
    /\ cpc = "call"
    /\ call = "DownloadCrawlRequest"
    /\ ~cancelled
    /\ sent' = sent \cup {DoRequest("download")}
    /\ cpc' = "callReturned"
    /\ \E resp \in HTTPResponses :
          /\ httpResp' = resp
          /\ respCloses' = 1
          /\ body' = DownloadBody(resp)
          /\ ret' = DownloadCrawlRequest(DownloadBody(resp))
    /\ UNCHANGED <<inputVars, tail, fetchCancelled, cancelled,
                   producerVars, delivered, foldVars,
                   downloadData, nCreate, nStatus, cFetches>>

\* MonitorCrawlRequest called by itself: the status request fails.
MonitorCrawlRequestFails ==
    /\ cpc = "monitor"
    /\ nStatus' = nStatus + 1
    /\ sent' = sent \cup {DoRequest("status")}
    /\ cpc' = "callReturned"
    /\ ret' = Pair(NullV, ErrRequest)
    /\ UNCHANGED <<inputVars, tail, httpResp, respCloses, body, fetchCancelled,
                   cancelled, producerVars, delivered, foldVars,
                   downloadData, nCreate, cFetches>>

\* MonitorCrawlRequest called by itself: the status request is answered,
\* with any status code; the channel is returned and the goroutine started.
\* The caller here does not receive from the channel.
MonitorCrawlRequestOpened ==
    /\ cpc = "monitor"
    /\ ~cancelled
    /\ nStatus' = nStatus + 1
    /\ sent' = sent \cup {DoRequest("status")}
    /\ \E status \in Statuses : httpResp' = HTTPResponse(status, BodyEmpty)
    /\ cpc' = "callReturned"
    /\ ret' = Pair(NullV, ErrNil)
    /\ ppc' = "top"
    /\ UNCHANGED <<inputVars, tail, respCloses, body, fetchCancelled,
                   cancelled, wire, readEnd, cur, closeCount,
                   chClosed, mFetches, mDownload, delivered, foldVars,
                   downloadData, nCreate, cFetches>>

\* MonitorCrawlRequest: the status request fails.
MonitorOpenFails ==
    /\ cpc = "open"
    /\ nStatus' = nStatus + 1
    /\ sent' = sent \cup {DoRequest("status")}
    /\ cpc' = "returned"
    /\ ret' = ScrapeAbort(ErrRequest)
    /\ UNCHANGED <<inputVars, tail, httpResp, respCloses, body, fetchCancelled,
                   cancelled,
                   producerVars, delivered, foldVars,
                   downloadData, nCreate, cFetches>>

\* MonitorCrawlRequest: the stream is open and the goroutine started.
MonitorOpened ==
    /\ cpc = "open"
    /\ ~cancelled
    /\ nStatus' = nStatus + 1
    /\ sent' = sent \cup {DoRequest("status")}
    /\ cpc' = "recv"
    /\ ppc' = "top"
    /\ UNCHANGED <<inputVars, tail, httpResp, respCloses, body, fetchCancelled,
                   cancelled,
                   wire, readEnd, cur, closeCount,
                   chClosed, mFetches, mDownload, delivered, foldVars,
                   downloadData, ret,
                   nCreate, cFetches>>

----------------------------------------------------------------------------
(* The hand-off over the unbuffered channel, and ScrapeURL's loop.         *)

\* ScrapeURL receives ev from the channel and runs the loop body on it, up
\* to its return, its next receive or the start of a download.
Receive(ev) ==
    LET u == Fold(ev)
    IN  /\ delivered' = Append(delivered, ev)
        /\ eventCount' = eventCount + 1
        /\ cpc' = u.pc
        /\ lastProgress' = u.lastProgress
        /\ lastError' = u.lastError
        /\ lastStateData' = u.lastStateData
        /\ ret' = u.ret
        /\ cFetches' = cFetches + (IF u.fetch THEN 1 ELSE 0)
        /\ sent' = IF u.fetch THEN sent \cup {DoRequest("download")} ELSE sent
        /\ UNCHANGED downloadData

\* The receive finds the goroutine parked in its send.
ConsumerReceive ==
    /\ cpc = "recv"
    /\ ppc = "sendBlocked"
    /\ Receive(cur)
    /\ ppc' = "top"
    /\ UNCHANGED <<inputVars, tail, httpResp, respCloses, body, fetchCancelled,
                   cancelled,
                   wire, readEnd, cur, closeCount,
                   chClosed, mFetches, mDownload, nCreate, nStatus>>

\* Downloads that fail once ctx is cancelled.
FetchResponsesAbandoned == IF cancelled THEN {RespFail} ELSE Responses

\* The answers a download of the goroutine or of ScrapeURL can get: its
\* context is context.Background() with 30 seconds, not the caller's ctx.
FetchResponses == Responses

\* The download started on a state event with status completed ends.
ConsumerStateFetchDone ==
    /\ cpc = "fetchState"
    /\ \E resp \in FetchResponses :
          LET r == DownloadCrawlRequest(resp)
          IN  /\ body' = resp
              /\ downloadData' = r
              /\ ret' = StateFetchDone(r)
    /\ cpc' = "returned"
    /\ fetchCancelled' = fetchCancelled \ {"scrape"}
    /\ UNCHANGED <<inputVars, tail, httpVars, cancelled, producerVars,
                   delivered,
                   foldVars,
                   nCreate, nStatus, cFetches>>

\* The download started on a completed event ends.
ConsumerCompletedFetchDone ==
    /\ cpc = "fetchCompleted"
    /\ \E resp \in FetchResponses :
          LET r == DownloadCrawlRequest(resp)
          IN  /\ body' = resp
              /\ downloadData' = r
              /\ IF CompletedFetchReturns(r)
                 THEN cpc' = "returned" /\ ret' = Pair(r.val, ErrNil)
                 ELSE cpc' = "recv" /\ ret' = ret
    /\ fetchCancelled' = fetchCancelled \ {"scrape"}
    /\ UNCHANGED <<inputVars, tail, httpVars, cancelled, producerVars,
                   delivered,
                   foldVars,
                   nCreate, nStatus, cFetches>>

\* The range loop sees the channel closed.
ConsumerEnd ==
    /\ cpc = "recv"
    /\ chClosed
    /\ cpc' = "afterLoop"
    /\ UNCHANGED <<inputVars, tail, httpVars, body, fetchCancelled, cancelled,
                   producerVars, delivered, foldVars,
                   downloadData, ret, nCreate, nStatus, cFetches>>

\* The code after the loop returns.
ConsumerFallback ==
    /\ cpc = "afterLoop"
    /\ cpc' = "returned"
    /\ ret' = AfterLoop
    /\ UNCHANGED <<inputVars, tail, httpVars, body, fetchCancelled, cancelled,
                   producerVars, delivered, foldVars,
                   downloadData, nCreate, nStatus, cFetches>>

----------------------------------------------------------------------------
(* The goroutine of MonitorCrawlRequest.                                   *)

\* Whether the goroutine downloads the result before emitting ev.
NeedsDownload(ev) == download /\ ev.type = "result" /\ IsMap(ev.data)

\* An augmentation that keeps the inline content beside the download.
AugmentMerged(ev, r) ==
    IF r.err = ErrNil /\ r.val.shape = "object"
    THEN [ev EXCEPT !.data = [r.val EXCEPT !.content = ev.data.content]]
    ELSE ev

\* The event emitted after the download ended with r.
Augment(ev, r) == IF r.err = ErrNil THEN [ev EXCEPT !.data = r.val] ELSE ev

\* A send that does not select on ctx.Done(): cancellation leaves it parked.
OnDoneIgnored(pc) == pc

\* What closing ctx.Done() does to the goroutine: a select parked on the
\* send is woken on its Done case, so the send can no longer happen.
OnDoneWhileParked(pc) == IF pc = "sendBlocked" THEN "sendWoken" ELSE pc

\* A loop top that goes on to read without looking at ctx.Done().
ProducerTopBlind ==
    /\ ppc = "top"
    /\ ppc' = "read"
    /\ UNCHANGED <<inputVars, tail, httpVars, body, fetchCancelled, cancelled,
                   wire, readEnd, cur, closeCount,
                   chClosed, mFetches, mDownload, consumerVars, nCreate,
                   nStatus>>

\* Top of the loop: select on ctx.Done() with a default.
ProducerTop ==
    /\ ppc = "top"
    /\ ppc' = IF cancelled THEN "exit" ELSE "read"
    /\ UNCHANGED <<inputVars, tail, httpVars, body, fetchCancelled, cancelled,
                   wire, readEnd, cur, closeCount,
                   chClosed, mFetches, mDownload, consumerVars, nCreate,
                   nStatus>>

\* reader.ReadString returns a line, which is decoded.
ProducerReadLine ==
    /\ ppc = "read"
    /\ Len(wire) < MaxLines
    /\ \E raw \in Lines :
          LET d == DecodeLine(raw)
          IN  /\ wire' = Append(wire, raw)
              /\ IF ~d.emit
                 THEN ppc' = "top" /\ UNCHANGED <<cur, mFetches, sent>>
                 ELSE /\ cur' = d.ev
                      /\ IF NeedsDownload(d.ev)
                         THEN /\ ppc' = "download"
                              /\ mFetches' = mFetches + 1
                              /\ sent' = sent \cup {DoRequest("download")}
                         ELSE /\ ppc' = "send"
                              /\ UNCHANGED <<mFetches, sent>>
    /\ UNCHANGED <<inputVars, tail, httpResp, respCloses, body, fetchCancelled,
                   cancelled,
                   readEnd, closeCount, chClosed,
                   mDownload, consumerVars, nCreate, nStatus>>

\* reader.ReadString returns io.EOF, together with the text that came after
\* the last newline (none when the stream ends with a newline); the
\* goroutine returns on the error without looking at that text.
ProducerReadEOF ==
    /\ ppc = "read"
    /\ readEnd' = "eof"
    /\ tail' \in {<<>>} \cup (IF Len(wire) < MaxLines THEN TailLines ELSE {})
    /\ ppc' = "exit"
    /\ UNCHANGED <<inputVars, httpVars, body, fetchCancelled, cancelled,
                   wire, cur, closeCount, chClosed,
                   mFetches, mDownload, consumerVars, nCreate, nStatus>>

\* reader.ReadString returns another error.
ProducerReadError ==
    /\ ppc = "read"
    /\ readEnd' = "err"
    /\ ppc' = "exit"
    /\ UNCHANGED <<inputVars, tail, httpVars, body, fetchCancelled, cancelled,
                   wire, cur, closeCount, chClosed,
                   mFetches, mDownload, consumerVars, nCreate, nStatus>>

\* The goroutine's download of the result ends.
ProducerDownloadDone ==
    /\ ppc = "download"
    /\ \E resp \in FetchResponses :
          LET r == DownloadCrawlRequest(resp)
          IN  /\ body' = resp
              /\ mDownload' = r
              /\ cur' = Augment(cur, r)
    /\ ppc' = "send"
    /\ fetchCancelled' = fetchCancelled \ {"monitor"}
    /\ UNCHANGED <<inputVars, tail, httpVars, cancelled, wire, readEnd,
                   closeCount,
                   chClosed,
                   mFetches, consumerVars, nCreate, nStatus>>

\* The select on the send: the receiver is waiting and the send is chosen.
ProducerSend ==
    /\ ppc = "send"
    /\ cpc = "recv"
    /\ Receive(cur)
    /\ ppc' = "top"
    /\ UNCHANGED <<inputVars, tail, httpResp, respCloses, body, fetchCancelled,
                   cancelled,
                   wire, readEnd, cur, closeCount,
                   chClosed, mFetches, mDownload, nCreate, nStatus>>

\* The select on the send: ctx.Done() is closed and that case is chosen,
\* on entry or after the goroutine was woken from its park.
ProducerSendCancelled ==
    /\ \/ ppc = "send" /\ cancelled
       \/ ppc = "sendWoken"
    /\ ppc' = "exit"
    /\ UNCHANGED <<inputVars, tail, httpVars, body, fetchCancelled, cancelled,
                   wire, readEnd, cur, closeCount,
                   chClosed, mFetches, mDownload, consumerVars, nCreate,
                   nStatus>>

\* A send that does not wait for the receiver: the goroutine goes on.
ProducerParkSkipped ==
    /\ ppc = "send"
    /\ ~cancelled
    /\ cpc # "recv"
    /\ ppc' = "top"
    /\ UNCHANGED <<inputVars, tail, httpVars, body, fetchCancelled, cancelled,
                   wire, readEnd, cur, closeCount,
                   chClosed, mFetches, mDownload, consumerVars, nCreate,
                   nStatus>>

\* The select on the send: no case is ready and the goroutine parks.
ProducerPark ==
    /\ ppc = "send"
    /\ ~cancelled
    /\ cpc # "recv"
    /\ ppc' = "sendBlocked"
    /\ UNCHANGED <<inputVars, tail, httpVars, body, fetchCancelled, cancelled,
                   wire, readEnd, cur, closeCount,
                   chClosed, mFetches, mDownload, consumerVars, nCreate,
                   nStatus>>

\* The goroutine returning without closing the body.
ProducerCloseBodyForgotten ==
    /\ ppc = "exit"
    /\ ppc' = "closing"
    /\ UNCHANGED <<inputVars, tail, httpVars, body, fetchCancelled, cancelled,
                   wire, readEnd, cur, closeCount,
                   chClosed, mFetches, mDownload, consumerVars, nCreate,
                   nStatus>>

\* The deferred calls run in the other order: the channel is closed
\* while the body is still open.
ProducerCloseChanFirst ==
    /\ ppc = "exit"
    /\ chClosed' = TRUE
    /\ ppc' = "closing"
    /\ UNCHANGED <<inputVars, tail, httpVars, body, fetchCancelled, cancelled,
                   wire, readEnd, cur, closeCount,
                   mFetches, mDownload, consumerVars, nCreate, nStatus>>

\* Deferred resp.Body.Close().
ProducerCloseBody ==
    /\ ppc = "exit"
    /\ closeCount' = closeCount + 1
    /\ ppc' = "closing"
    /\ UNCHANGED <<inputVars, tail, httpVars, body, fetchCancelled, cancelled,
                   wire, readEnd, cur, chClosed,
                   mFetches, mDownload, consumerVars, nCreate, nStatus>>

\* The goroutine ending without closing the channel.
ProducerCloseChanForgotten ==
    /\ ppc = "closing"
    /\ ppc' = "done"
    /\ UNCHANGED <<inputVars, tail, httpVars, body, fetchCancelled, cancelled,
                   wire, readEnd, cur, closeCount, chClosed,
                   mFetches, mDownload, consumerVars, nCreate, nStatus>>

\* Deferred close(eventChan).
ProducerCloseChan ==
    /\ ppc = "closing"
    /\ chClosed' = TRUE
    /\ ppc' = "done"
    /\ UNCHANGED <<inputVars, tail, httpVars, body, fetchCancelled, cancelled,
                   wire, readEnd, cur, closeCount,
                   mFetches, mDownload, consumerVars, nCreate, nStatus>>

\* The error the end of the sequence carries to the consumer. The channel
\* carries events only, and the goroutine prints a read error and returns:
\* the close is all the consumer sees, whatever ended the reading.
TerminalError(end) == ErrNil

\* The downloads in flight: the goroutine's and ScrapeURL's.
InFlight ==
    (IF ppc = "download" THEN {"monitor"} ELSE {})
        \cup (IF cpc \in {"fetchState", "fetchCompleted"}
              THEN {"scrape"} ELSE {})

\* The caller cancels ctx (or its deadline passes).
Cancel ==
    /\ ~cancelled
    /\ cancelled' = TRUE
    /\ ppc' = OnDoneWhileParked(ppc)
    /\ fetchCancelled' = InFlight
    /\ UNCHANGED <<inputVars, tail, httpVars, body, wire, readEnd, cur,
                   closeCount,
                   chClosed,
                   mFetches, mDownload, consumerVars, nCreate, nStatus>>

----------------------------------------------------------------------------

ConsumerNext ==
    \/ SingleCallRequestFails
    \/ GetCrawlRequestsDone
    \/ GetCrawlRequestDone
    \/ GetCrawlRequestResultsDone
    \/ StopCrawlRequestDone
    \/ DownloadCrawlRequestDone
    \/ MonitorCrawlRequestFails
    \/ MonitorCrawlRequestOpened
    \/ CreateCrawlRequestInvalid
    \/ CreateCrawlRequestFails
    \/ CreateCrawlRequestDone
    \/ ScrapeInvalid
    \/ ScrapeCreateFails
    \/ ScrapeCreated
    \/ MonitorOpenFails
    \/ MonitorOpened
    \/ ConsumerReceive
    \/ ConsumerStateFetchDone
    \/ ConsumerCompletedFetchDone
    \/ ConsumerEnd
    \/ ConsumerFallback

ProducerNext ==
    \/ ProducerTop
    \/ ProducerReadLine
    \/ ProducerReadEOF
    \/ ProducerReadError
    \/ ProducerDownloadDone
    \/ ProducerSend
    \/ ProducerSendCancelled
    \/ ProducerPark
    \/ ProducerCloseBody
    \/ ProducerCloseChan

Next == ConsumerNext \/ ProducerNext \/ Cancel

Spec == Init /\ [][Next]_vars

\* The Go scheduler runs every goroutine that can take a step, every read
\* and every download ends; nothing obliges the caller to cancel.
FairSpec == Spec /\ WF_vars(ConsumerNext) /\ WF_vars(ProducerNext)

\* The steps of the goroutine that do not wait for the server: every step
\* but the return of a read while ctx is not cancelled.  The status request
\* is made with ctx, so once ctx is cancelled a pending read of its body
\* returns (what was buffered, or an error).
ProducerProgress == (ppc = "read" => cancelled) /\ ProducerNext

\* As FairSpec, but the server may stay silent for ever: a read need not
\* return while ctx is not cancelled.
StallSpec == Spec /\ WF_vars(ConsumerNext) /\ WF_vars(ProducerProgress)

----------------------------------------------------------------------------
(* Vocabulary of the properties.                                           *)

Max(set) == CHOOSE x \in set : \A y \in set : y <= x

Returned == cpc = "returned"

\* The outcome variants of a returned call.
Delivered(payload) == ret = Pair(payload, ErrNil) /\ payload # NilMap
Degraded(payload) == ret = Pair(payload, ErrNil) /\ payload # NilMap
Failed == ret.val = NilMap /\ ret.err # ErrNil

\* Positions, in the events consumed, of the events of one sort.
Consumed == 1..Len(delivered)
OfType(type) == {i \in Consumed : delivered[i].type = type}
ResultIdx == {i \in OfType("result") : IsMap(delivered[i].data)}
StateIdx == {i \in OfType("state") : IsMap(delivered[i].data)}
StatusIdx(status) == {i \in StateIdx : delivered[i].data.status = S(status)}
ErrorIdx == OfType("error")
ProgressIdx ==
    {i \in OfType("progress") :
        IsMap(delivered[i].data) /\ delivered[i].data.progress.t = "number"}

\* The events the lines of w carry, in order.
RECURSIVE EmittedEvents(_)
EmittedEvents(w) ==
    IF w = <<>> THEN <<>>
    ELSE LET d == DecodeLine(Head(w))
         IN  (IF d.emit THEN <<d.ev>> ELSE <<>>) \o EmittedEvents(Tail(w))

----------------------------------------------------------------------------
(* Properties.                                                             *)

\* C1: a returned ScrapeURL call has either a non-nil map and a nil error,
\* or a nil map and a non-nil error: never both, never neither.
C1_ExactlyOneOutcome ==
    Returned =>
        \/ ret.val # NilMap /\ ret.err = ErrNil
        \/ ret.val = NilMap /\ ret.err # ErrNil

\* C2: the first consumed result event with a map payload ends the call at
\* once with Delivered(that payload); nothing is consumed after it; with
\* download false the payload is the one the wire carried.
C2_ResultDelivers ==
    \A i \in ResultIdx :
        /\ i = Len(delivered)
        /\ Returned
        /\ Delivered(delivered[i].data)
        /\ ~download => delivered[i] = EmittedEvents(wire)[i]

\* C3: a consumed state event with status completed ends the call at that
\* event; with download exactly one fetch is made for it and the outcome is
\* Delivered(fetched) when the fetch succeeds, Degraded(state payload) when
\* it fails; without download no fetch is made and the outcome is
\* Degraded(state payload).
C3_StateCompletedTerminates ==
    \A i \in StatusIdx("completed") :
        /\ i = Len(delivered)
        /\ cpc \in {"fetchState", "returned"}
        /\ cFetches = (IF download
                       THEN Cardinality(OfType("completed")) + 1 ELSE 0)
        /\ ~download => Returned
        /\ Returned =>
              IF download /\ downloadData.err = ErrNil
              THEN Delivered(downloadData.val)
              ELSE Degraded(delivered[i].data)

\* C4: a consumed state event with status failed ends the call at once with
\* Failed citing that status, whatever download is and whatever was consumed
\* before, and no fetch is made for it.
C4_StateFailedTerminates ==
    \A i \in StatusIdx("failed") :
        /\ i = Len(delivered)
        /\ Returned
        /\ Failed
        /\ ret.err = ErrCrawlFailed("failed")
        /\ cFetches = (IF download THEN Cardinality(OfType("completed")) ELSE 0)

\* C4 witness: the call returned on a state event with status failed that
\* came after another event.
C4_Witness ==
    /\ Returned
    /\ Len(delivered) = 2
    /\ 2 \in StatusIdx("failed")
    /\ delivered[1].type \in {"state", "progress", "error"}

\* The progress value the generic failure reports, from the events consumed.
LastProgressSeen ==
    IF ProgressIdx = {} THEN 0
    ELSE delivered[Max(ProgressIdx)].data.progress.n

\* The outcome at the end of the sequence, by the priority in which any
\* consumed error event decides the third case.
EndOutcomeAnyError ==
    IF StateIdx # {} THEN Pair(delivered[Max(StateIdx)].data, ErrNil)
    ELSE IF Len(delivered) = 0 THEN Pair(NilMap, ErrNoEvents)
    ELSE IF ErrorIdx # {}
    THEN Pair(NilMap, ErrLastError(delivered[Max(ErrorIdx)].data))
    ELSE Pair(NilMap, ErrNoResult(Len(delivered), LastProgressSeen))

\* The same, the third case taken only when the last error event's payload
\* is not null.
EndOutcomeNonNullError ==
    IF StateIdx # {} THEN Pair(delivered[Max(StateIdx)].data, ErrNil)
    ELSE IF Len(delivered) = 0 THEN Pair(NilMap, ErrNoEvents)
    ELSE IF ErrorIdx # {} /\ delivered[Max(ErrorIdx)].data # NullV
    THEN Pair(NilMap, ErrLastError(delivered[Max(ErrorIdx)].data))
    ELSE Pair(NilMap, ErrNoResult(Len(delivered), LastProgressSeen))

\* C5 as stated: when the sequence ends without a terminal decision the
\* outcome is Degraded(last state payload), else Failed(no events) when
\* nothing was consumed, else Failed citing the last error event's payload
\* when any error event was consumed, else the generic failure with the
\* event count and the last progress.
C5_EndOfSequencePriority ==
    [][(cpc = "afterLoop" /\ cpc' = "returned") => ret' = EndOutcomeAnyError]_vars

\* C5 amended: as C5, but the third case applies only when the last error
\* event consumed has a non-null payload; with a null payload the generic
\* failure is returned.
C5_EndOfSequencePriorityNonNull ==
    [][(cpc = "afterLoop" /\ cpc' = "returned")
          => ret' = EndOutcomeNonNullError]_vars

\* C5 witness: the call returned the generic failure at the end of a
\* sequence whose last error event had a null payload.
C5_Witness ==
    /\ Returned
    /\ chClosed
    /\ ret.err.kind = "noResult"
    /\ ErrorIdx # {}
    /\ Len(delivered) = MaxLines

\* A state payload came back with a nil error.
DegradedOutcome ==
    /\ Returned
    /\ ret.err = ErrNil
    /\ ret.val # NilMap
    /\ \E i \in StateIdx : ret.val = delivered[i].data

\* C6 as stated: Degraded only if some consumed state event reported the
\* status completed.
C6_DegradedOnlyWhenCompleted ==
    DegradedOutcome => StatusIdx("completed") # {}

\* C6 amended: Degraded carries the payload of the last state event consumed
\* (with a map payload), and that event either reported the status completed
\* or the sequence had ended with it as the last state seen, whatever its
\* status.
C6_DegradedIsLastState ==
    DegradedOutcome =>
        /\ ret.val = delivered[Max(StateIdx)].data
        /\ \/ Max(StateIdx) \in StatusIdx("completed")
           \/ chClosed

\* C6 witness: Degraded with a state that never reported completed.
C6_Witness ==
    /\ DegradedOutcome
    /\ StatusIdx("completed") = {}
    /\ StatusIdx("running") # {}

\* C7: with download false no request goes to the download endpoint, from
\* ScrapeURL or from the goroutine.
C7_NoFetchWithoutDownload ==
    ~download =>
        /\ mFetches = 0
        /\ cFetches = 0
        /\ ppc # "download"
        /\ cpc \notin {"fetchState", "fetchCompleted"}

\* C7 witness: download is false and a completed event, then a result or a
\* completed state, were consumed.
C7_Witness ==
    /\ ~download
    /\ Returned
    /\ Len(delivered) = 2
    /\ delivered[1].type = "completed"
    /\ 2 \in ResultIdx \cup StatusIdx("completed")

\* C8: the status stream's body is closed at most once, and exactly once
\* when the goroutine has ended.
C8_TransportReleasedOnce ==
    /\ closeCount <= 1
    /\ ppc = "done" => closeCount = 1
    /\ ppc \in {"none", "top", "read", "download", "send", "sendBlocked",
                "sendWoken", "exit"} => closeCount = 0

\* C8 witness: the goroutine ended on a cancellation, not on a read result.
C8_Witness ==
    /\ ppc = "done"
    /\ closeCount = 1
    /\ cancelled
    /\ readEnd = "none"

\* C9: once ScrapeURL has returned while the goroutine runs, the goroutine
\* ends and the body is closed once, unless ctx is cancelled.
C9_EarlyExitReleases ==
    (Returned /\ ppc # "none")
        ~> (cancelled \/ (ppc = "done" /\ closeCount = 1))

\* A step that cancels while the goroutine is parked on its send wakes it
\* on the Done case and delivers nothing.
WokenByCancel ==
    (ppc = "sendBlocked" /\ ~cancelled /\ cancelled')
        => (ppc' = "sendWoken" /\ delivered' = delivered)

\* Once woken, or returning, the goroutine delivers and reads nothing more.
NothingAfterWoken ==
    ppc \in {"sendWoken", "exit", "closing", "done"}
        => (/\ delivered' = delivered
            /\ wire' = wire
            /\ ppc' \in {"sendWoken", "exit", "closing", "done"})

\* C10: a cancellation that finds the goroutine parked on its send wakes it
\* on the Done case; from then on nothing is delivered and nothing is read,
\* the goroutine only closes the body and the channel, and it does so.
C10_CancelWhileBlockedOnSend ==
    /\ [][WokenByCancel]_vars
    /\ [][NothingAfterWoken]_vars
    /\ (ppc = "sendWoken") ~> (ppc = "done" /\ closeCount = 1 /\ chClosed)

\* C10 witness: the goroutine was woken from its parked send by the
\* cancellation, with an event in hand that was not delivered.
C10_Witness ==
    /\ ppc = "sendWoken"
    /\ cancelled
    /\ Len(delivered) < Len(EmittedEvents(wire))

\* A step taken with ctx.Done() closed hands no event to the consumer.
NoDeliveryOnceCancelled == cancelled => delivered' = delivered

\* C11: once ctx is cancelled no further event is received from the
\* channel, wherever the goroutine was when the cancellation fired.
C11_NoDeliveryAfterCancel == [][NoDeliveryOnceCancelled]_vars

\* A download that was running when ctx was cancelled ends with an error.
AbandonedFetchFails ==
    /\ ("monitor" \in fetchCancelled /\ ppc = "download" /\ ppc' # "download")
          => mDownload'.err # ErrNil
    /\ ("scrape" \in fetchCancelled /\ cpc \in {"fetchState", "fetchCompleted"}
            /\ cpc' # cpc)
          => downloadData'.err # ErrNil

\* C12: a download of the result that is in flight when ctx is cancelled,
\* the goroutine's before it emits a result event or ScrapeURL's on a
\* completed state or a completed event, ends with an error.
C12_FetchAbandonedOnCancel == [][AbandonedFetchFails]_vars

\* The tokens of a line that are not white space.
Inked(raw) == SelectSeq(raw, LAMBDA t : t.t # "sp")

\* The line bears the data: marker.
Marked(raw) == Inked(raw) # <<>> /\ Inked(raw)[1] = Marker

\* The line is the data: marker followed by a well-formed event document.
Framed(raw) == Len(Inked(raw)) = 2 /\ Marked(raw) /\ Inked(raw)[2].t = "json"

\* The events framed on the lines of w, in wire order.
RECURSIVE FramedEvents(_)
FramedEvents(w) ==
    IF w = <<>> THEN <<>>
    ELSE (IF Framed(Head(w)) THEN <<Inked(Head(w))[2].ev>> ELSE <<>>)
            \o FramedEvents(Tail(w))

\* The events received are, one for one and in order, the first framed
\* events of the wire: the same kind, and the same payload unless the
\* goroutine downloads the result for that event.
ReceivedIsPrefixOfFramed ==
    /\ Len(delivered) <= Len(FramedEvents(wire))
    /\ \A i \in Consumed :
          /\ delivered[i].type = FramedEvents(wire)[i].type
          /\ ~NeedsDownload(FramedEvents(wire)[i])
                => delivered[i] = FramedEvents(wire)[i]

\* Reading a line without the marker hands over nothing and leaves the
\* goroutine in its loop.
UnmarkedLineSkipped ==
    (wire' # wire /\ ~Marked(wire'[Len(wire')]))
        => (delivered' = delivered /\ ppc' = "top" /\ chClosed' = chClosed)

Malformed(raw) == Marked(raw) /\ ~Framed(raw)

\* The wire with its malformed data: lines taken out.
WithoutMalformed(w) == SelectSeq(w, LAMBDA raw : ~Malformed(raw))

\* Whenever the goroutine is between two lines, the consumer has received
\* every event of the wire read so far, as the wire without its malformed
\* lines frames them, and has counted nothing else.
MalformedInvisible ==
    /\ eventCount = Len(delivered)
    /\ ppc \in {"top", "read"} =>
          /\ Len(delivered) = Len(FramedEvents(WithoutMalformed(wire)))
          /\ \A i \in Consumed :
                delivered[i].type = FramedEvents(WithoutMalformed(wire))[i].type

\* Reading a malformed data: line changes nothing but the wire and leaves
\* the goroutine in its loop.
MalformedLineDropped ==
    (wire' # wire /\ Malformed(wire'[Len(wire')]))
        => /\ ppc' = "top"
           /\ cur' = cur
           /\ chClosed' = chClosed
           /\ readEnd' = readEnd
           /\ consumerVars' = consumerVars

C15_ReadErrorSurfaced ==
    chClosed =>
        /\ readEnd = "err" => TerminalError(readEnd) # ErrNil
        /\ readEnd = "eof" => TerminalError(readEnd) = ErrNil

\* The condition under which a decoded event calls for a download.
FetchDue(ev) == download /\ ev.type = "result" /\ ev.data.shape = "object"

\* The event framed by the last line read.
LastFramed == FramedEvents(wire)[Len(FramedEvents(wire))]

\* The goroutine holds an event ready for the hand-off.
Emitting == ppc \in {"send", "sendBlocked", "sendWoken"}

\* One download was started per framed event that calls for one, and none
\* for any other; the event held for the hand-off has the whole downloaded
\* value as its payload when a download was made and gave no error, and is
\* the framed event as it came otherwise.
AugmentedAsDue ==
    /\ mFetches = Cardinality({i \in 1..Len(FramedEvents(wire)) :
                                  FetchDue(FramedEvents(wire)[i])})
    /\ ppc = "download" => (FetchDue(LastFramed) /\ cur = LastFramed)
    /\ Emitting =>
          cur = IF FetchDue(LastFramed) /\ mDownload.err = ErrNil
                THEN Event(LastFramed.type, mDownload.val)
                ELSE LastFramed

\* A download that ends, with or without an error, is followed by the
\* hand-off; what is handed over is the event held, and the goroutine then
\* goes on with its loop.
EmittedEitherWay ==
    /\ (ppc = "download" /\ ppc' # ppc) => ppc' = "send"
    /\ delivered' # delivered
          => (Emitting \/ ppc = "send") /\ delivered' = Append(delivered, cur)
                /\ ppc' = "top"

\* C16: a download is attempted for a decoded event if and only if
\* download is set, the kind is "result" and the payload is an object; the
\* payload emitted is the downloaded result whole when the download gave
\* no error and the inline payload in every other case; the event is
\* emitted in both cases and the stream goes on.
C16_AugmentationNeverFatal ==
    /\ []AugmentedAsDue
    /\ [][EmittedEitherWay]_vars

\* C16 witness: a first result event was received with its inline payload
\* after its download failed, and the goroutine holds a second one whose
\* payload is the downloaded object.
C16_Witness ==
    /\ download
    /\ mFetches = 2
    /\ delivered = <<EvResult>>
    /\ Emitting
    /\ mDownload.err = ErrNil
    /\ cur.data = RespObject.val
    /\ cur.data # LastFramed.data

\* The step ends a download, the goroutine's or ScrapeURL's.
MonitorFetchEnds == ppc = "download" /\ ppc' = "send"
ScrapeFetchEnds == cpc \in {"fetchState", "fetchCompleted"} /\ cpc' # cpc

\* What the DownloadCrawlRequest call ending in this step returned.
FetchReturned == IF MonitorFetchEnds THEN mDownload' ELSE downloadData'

\* The value is an object whose only key is "results", holding items.
OnlyResults(v, items) ==
    /\ v.shape = "object"
    /\ v.wrapped
    /\ v.items = items
    /\ MapLen(v) = 1

\* A download that read a JSON object returns that object, one that read a
\* JSON array returns the array under the single key "results".
ObjectAsIsArrayWrapped ==
    (MonitorFetchEnds \/ ScrapeFetchEnds) =>
        /\ (body'.ok /\ body'.body = "object")
              => FetchReturned = Pair(body'.val, ErrNil)
        /\ (body'.ok /\ body'.body = "array")
              => /\ FetchReturned.err = ErrNil
                 /\ OnlyResults(FetchReturned.val, body'.val.items)

\* C17: DownloadCrawlRequest returns a JSON-object body as that object,
\* unchanged, and a JSON-array body as an object with the single key
\* "results" whose value is the array, same elements in the same order.
C17_ObjectUnchangedArrayWrapped == [][ObjectAsIsArrayWrapped]_vars

\* C17 witness: the goroutine's download read the two-element array and
\* the event it holds carries the wrapped array; ScrapeURL's download had
\* read an object before.
C17_Witness ==
    /\ body = RespArray
    /\ mDownload.val.items = <<"a", "b">>
    /\ cur.data = mDownload.val
    /\ Emitting
    /\ downloadData = Pair(RespObject.val, ErrNil)

\* A download that read a body which is neither a JSON object nor a JSON
\* array returns an error and a nil map.
OtherBodyFails ==
    ((MonitorFetchEnds \/ ScrapeFetchEnds)
        /\ body'.ok /\ body'.body \notin {"object", "array"})
        => (FetchReturned.err # ErrNil /\ FetchReturned.val = NilMap)

\* C18: DownloadCrawlRequest returns an error and no result for every body
\* whose top-level JSON shape is neither an object nor an array: a scalar,
\* null, an empty body, malformed JSON.
C18_OtherShapesFail == [][OtherBodyFails]_vars

\* The call, ScrapeURL or CreateCrawlRequest by itself, has returned.
CallReturned == cpc \in {"returned", "createReturned"}

\* The positions (from 1) of the empty strings of a URL list.
EmptyAt(u) == {i \in 1..Len(u.list) : u.list[i] = ""}

\* The URL is nil, an empty string, an empty list, or a list holding an
\* empty string.
MissingURL(u) ==
    \/ u.kind = "nil"
    \/ u.kind = "string" /\ u.str = ""
    \/ u.kind = "strings" /\ (u.list = <<>> \/ EmptyAt(u) # {})

\* The field name url[i], for the indexes a bounded list has.
FieldOfIndex(i) ==
    <<"url", "[",
      CASE i = 0 -> "0" [] i = 1 -> "1" [] i = 2 -> "2" [] i = 3 -> "3"
        [] i = 4 -> "4" [] OTHER -> "?",
      "]">>

\* C19: with a URL that is nil, an empty string, an empty list or a list
\* holding an empty string, CreateCrawlRequest, called by itself or by
\* ScrapeURL, sends no HTTP request and returns a ValidationError and no
\* result; for a list with an empty string the field is url[i], i being
\* the index of an empty element.
C19_MissingURLRejected ==
    MissingURL(input) =>
        /\ nCreate = 0 /\ nStatus = 0 /\ mFetches = 0 /\ cFetches = 0
        /\ ppc = "none"
        /\ cpc \in {"start", "create", "returned", "createReturned"}
        /\ CallReturned =>
              /\ ret.val = NilMap
              /\ ret.err.kind = "validation"
              /\ (input.kind = "strings" /\ EmptyAt(input) # {})
                    => \E i \in EmptyAt(input) :
                          ret.err.field = FieldOfIndex(i - 1)

\* C19 witness: CreateCrawlRequest returned for the list whose second
\* element is empty, with the field url[1] and no request sent.
C19_Witness ==
    /\ cpc = "createReturned"
    /\ input = ListURL(<<"https://example.com", "">>)
    /\ ret.err.field = <<"url", "[", "1", "]">>
    /\ nCreate = 0

Min(set) == CHOOSE x \in set : \A y \in set : x <= y

\* The field and the message fixed for each class of invalid URL.
FixedPair(u) ==
    IF u.kind = "nil" THEN <<(<<"url">>), "URL is required">>
    ELSE IF u.kind = "string" THEN <<(<<"url">>), "URL cannot be empty">>
    ELSE IF u.kind = "strings" /\ u.list = <<>>
    THEN <<(<<"url">>), "URL list cannot be empty">>
    ELSE IF u.kind = "strings"
    THEN <<FieldOfIndex(Min(EmptyAt(u)) - 1), "URL cannot be empty">>
    ELSE <<(<<"url">>), "URL must be a string or array of strings">>

\* C20: the ValidationError of CreateCrawlRequest has, for a nil URL, an
\* empty string, an empty list, a list with empty elements (i the lowest
\* index of an empty element) and a value of another type, the field and
\* message fixed for that class, and its text is
\* "watercrawl: validation error: <field>: <message>".
C20_FixedFieldAndMessage ==
    CallReturned =>
        IF MissingURL(input) \/ input.kind = "other"
        THEN /\ ret.err.kind = "validation"
             /\ ret.err.field = FixedPair(input)[1]
             /\ ret.err.message = FixedPair(input)[2]
             /\ ErrorText(ret.err) =
                    <<"watercrawl: validation error: ">>
                        \o FixedPair(input)[1]
                        \o <<": ", FixedPair(input)[2]>>
        ELSE ret.err.kind # "validation"

\* C20 witness: CreateCrawlRequest returned for a list whose second and
\* third elements are empty, naming url[1].
C20_Witness ==
    /\ cpc = "createReturned"
    /\ input = ListURL(<<"https://example.com", "", "">>)
    /\ ErrorText(ret.err) = <<"watercrawl: validation error: ", "url", "[",
                              "1", "]", ": ", "URL cannot be empty">>

\* The call's own request was answered, and with a status outside 2xx.
Answered == httpResp # NoResponse
NonSuccess == Answered /\ ~(httpResp.status \in 200..299)

\* C21: every operation whose request is answered with a status outside
\* 2xx fails with an APIError carrying that status: list, get, create,
\* stop, results, DownloadCrawlRequest and the opening of the status stream
\* by MonitorCrawlRequest.
C21_NonSuccessIsAPIError ==
    NonSuccess => ret.err.kind = "api" /\ ret.err.code = httpResp.status

\* The call failed with an APIError made from the response it got.
FailedWithAPIError == Answered /\ ret.err.kind = "api"

\* The "error" key of a JSON object body, when it is a non-empty string.
ErrorField(b) ==
    IF b.kind = "object" /\ b.error.t = "string" /\ b.error.s # ""
    THEN b.error.s ELSE ""

\* The text "HTTP error N" for the statuses of the model.
GenericMessage(status) ==
    IF status = 400 THEN "HTTP error 400"
    ELSE IF status = 500 THEN "HTTP error 500"
    ELSE "?"

\* C22: an APIError has the status code of the response, and its message is
\* the body's "error" field when that is a non-empty string, else the raw
\* body text when the body is not empty, else "HTTP error N" with N the
\* status code.
C22_APIErrorMessage ==
    FailedWithAPIError =>
        /\ ret.err.code = httpResp.status
        /\ ret.err.message =
              IF ErrorField(httpResp.body) # "" THEN ErrorField(httpResp.body)
              ELSE IF httpResp.body.raw # "" THEN httpResp.body.raw
              ELSE GenericMessage(httpResp.status)

\* C22 witness: GetCrawlRequests answered 400 with an error object has
\* returned an APIError with status 400 and the object's message.
C22_Witness ==
    /\ call = "GetCrawlRequests"
    /\ httpResp = HTTPResponse(400, BodyError)
    /\ ret.err.kind = "api"
    /\ ret.err.code = 400
    /\ ret.err.message = "Invalid request parameters"

\* The operations whose response goes through processResponse.
ProcessedCalls == DecodingCalls \cup {"StopCrawlRequest", "CreateCrawlRequest"}

\* The destination handed to processResponse by the call.
DestOf(c) == IF c = "StopCrawlRequest" THEN NoDest ELSE ZeroDest

\* C23: a response with status 204 is a success without a body:
\* processResponse returns no error, leaves the destination as it was
\* whatever the body holds, and closes the body once; so StopCrawlRequest
\* answered 204 succeeds.
C23_NoContentIsSuccess ==
    (call \in ProcessedCalls /\ Answered /\ httpResp.status = StatusNoContent)
        => /\ ret.err = ErrNil
           /\ ret.val = DestOf(call)
           /\ respCloses = 1

\* C23 witness: StopCrawlRequest answered 204 with an empty body has
\* returned no error, the body closed once.
C23_Witness ==
    /\ call = "StopCrawlRequest"
    /\ cpc = "callReturned"
    /\ httpResp = HTTPResponse(StatusNoContent, BodyEmpty)
    /\ ret.err = ErrNil
    /\ respCloses = 1

\* ScrapeURL's creation succeeded: the create request was answered and
\* processResponse accepted the answer.
CreationSucceeded ==
    /\ call = "ScrapeURL"
    /\ Answered
    /\ ProcessResponse(httpResp, ZeroDest).err = ErrNil

\* The keys of a map payload.
KeysOf(v) == {k \in {"status", "progress", "content", "uuid", "error"} :
                v[k].t # "absent"}

\* C24: with sync false ScrapeURL sends the create request and nothing
\* else (no status request, no goroutine, no download request), and after
\* a successful creation it has returned, with a nil error, the map holding
\* exactly the job's uuid and status.
C24_AsyncReturnsSummary ==
    (call = "ScrapeURL" /\ ~sync) =>
        /\ nStatus = 0 /\ mFetches = 0 /\ cFetches = 0
        /\ ppc = "none"
        /\ sent \subseteq {DoRequest("create")}
        /\ CreationSucceeded =>
              /\ Returned
              /\ nCreate = 1
              /\ ret.err = ErrNil
              /\ ret.val.shape = "object"
              /\ KeysOf(ret.val) = {"uuid", "status"}
              /\ ret.val.uuid = httpResp.body.uuid
              /\ ret.val.status = httpResp.body.status

\* C24 witness: ScrapeURL with sync false has returned the summary after
\* its one request.
C24_Witness ==
    /\ call = "ScrapeURL"
    /\ ~sync
    /\ Returned
    /\ CreationSucceeded
    /\ ret = Pair(CreatedSummary, ErrNil)
    /\ sent = {DoRequest("create")}

\* ScrapeURL returned because CreateCrawlRequest failed: on the URL, on the
\* request, or on the answer.
CreationFailed ==
    /\ call = "ScrapeURL"
    /\ Returned
    /\ nStatus = 0
    /\ ~CreationSucceeded

\* The error CreateCrawlRequest produced.
CreationError ==
    IF Validate(input) # ErrNil THEN Validate(input)
    ELSE IF Answered THEN ProcessResponse(httpResp, ZeroDest).err
    ELSE ErrRequest

\* The status request was sent and MonitorCrawlRequest returned its error.
StreamOpenFailed == nStatus = 1 /\ ppc = "none" /\ CallReturned

\* No goroutine, no channel traffic and no download request.
NothingDownstream ==
    /\ ppc = "none"
    /\ wire = <<>> /\ delivered = <<>>
    /\ ~chClosed /\ closeCount = 0
    /\ mFetches = 0 /\ cFetches = 0
    /\ \A r \in sent : r.endpoint # "download"

\* C25: a failure before the status stream is established ends the call
\* with that failure and nothing downstream.  When creation fails ScrapeURL
\* returns the creation error as it is, with no status request; when the
\* status request fails MonitorCrawlRequest returns the error with no
\* channel and no goroutine, and ScrapeURL returns that error.
C25_EarlyFailureAborts ==
    /\ CreationFailed =>
          /\ ret = Pair(NilMap, CreationError)
          /\ ret.err # ErrNil
          /\ NothingDownstream
          /\ \A r \in sent : r.endpoint = "create"
    /\ StreamOpenFailed =>
          /\ ret.err = ErrRequest
          /\ ret.val \in {NilMap, NullV}
          /\ NothingDownstream

\* C25 witness: ScrapeURL has returned the APIError of a create request
\* answered 500, with no status request sent.
C25_Witness ==
    /\ CreationFailed
    /\ httpResp = HTTPResponse(500, BodyText)
    /\ ret.err = APIError(500, "Internal Server Error")
    /\ nStatus = 0

\* ScrapeURL receives a completed event in this step.
ReceivesCompleted ==
    /\ Len(delivered') = Len(delivered) + 1
    /\ delivered'[Len(delivered')].type = "completed"

\* The download ScrapeURL started on a completed event ends in this step.
CompletedFetchEnds == cpc = "fetchCompleted" /\ cpc' # cpc

\* The download returned no error and a map with at least one key.
FetchedContent(r) == r.err = ErrNil /\ IsMap(r.val) /\ MapLen(r.val) > 0

CompletedStep ==
    /\ ReceivesCompleted =>
          /\ ret' = ret
          /\ IF download
             THEN cpc' = "fetchCompleted" /\ cFetches' = cFetches + 1
             ELSE cpc' = "recv" /\ cFetches' = cFetches
    /\ CompletedFetchEnds =>
          /\ cFetches' = cFetches
          /\ downloadData' = DownloadCrawlRequest(body')
          /\ IF FetchedContent(downloadData')
             THEN cpc' = "returned" /\ ret' = Pair(downloadData'.val, ErrNil)
             ELSE cpc' = "recv" /\ ret' = ret

\* C26: in ScrapeURL with sync true a completed event starts exactly one
\* download when download is true and none when it is false; the call
\* returns the downloaded map with a nil error when the download returned
\* no error and a non-empty map, and otherwise (download failed, empty or
\* nil map, download false) goes on receiving with nothing returned.
C26_CompletedFetch == [][CompletedStep]_vars

\* C26 witness: a completed event's download failed and ScrapeURL received
\* a further event afterwards.
C26_Witness ==
    /\ download
    /\ Len(delivered) = 2
    /\ delivered[1].type = "completed"
    /\ delivered[2].type # "completed"
    /\ downloadData.err # ErrNil
    /\ cFetches = 1

\* The reasons ScrapeURL's loop and its end raise.
FoldReasons == {"crawlFailed", "noEvents", "lastError", "noResult"}

\* C27: the error ScrapeURL returns is never the error of a download: it
\* is the creation error when creation failed, the status request's error
\* when the stream could not be opened, and otherwise one of the reasons
\* failed status, no events, last error event and no valid result.
C27_FetchFailureNotReturned ==
    (call = "ScrapeURL" /\ Returned /\ ret.err # ErrNil) =>
        IF nStatus = 0 THEN CreationFailed /\ ret.err = CreationError
        ELSE IF ppc = "none" THEN StreamOpenFailed /\ ret.err = ErrRequest
        ELSE ret.err.kind \in FoldReasons

\* C27 witness: a download failed and ScrapeURL returned the no-valid-result
\* reason.
C27_Witness ==
    /\ call = "ScrapeURL"
    /\ Returned
    /\ downloadData.err = ErrRequest
    /\ cFetches = 1
    /\ ret.err.kind = "noResult"

\* A download of the goroutine or of ScrapeURL ends in this step because
\* its 30 seconds have passed.
FetchTimesOut ==
    /\ MonitorFetchEnds \/ ScrapeFetchEnds
    /\ body' = RespTimeout

TimeoutRaised == FetchTimesOut => FetchReturned.err.kind = "timeout"

\* C28: a download that exceeds its 30 seconds fails with a TimeoutError
\* (carrying the operation's name and a message).
C28_TimeoutErrorRaised == [][TimeoutRaised]_vars

\* The status endpoint answered with one line, the bare JSON of a result
\* event with an object payload and no data: marker, and the stream ended.
BareResultBody == wire = <<(<<Json(EvResult)>>)>> /\ readEnd = "eof"

\* C29: when the whole body of the status endpoint is one bare JSON event
\* of type result with an object payload, ScrapeURL with sync true and
\* download false returns that payload with a nil error.
C29_BareEventDelivered ==
    (call = "ScrapeURL" /\ sync /\ ~download /\ ~cancelled /\ Returned
        /\ BareResultBody)
        => ret = Pair(EvResult.data, ErrNil)

\* The endpoints the requests sent so far went to.
EndpointsSent == {r.endpoint : r \in sent}

\* Every request the counters and the call's position tell of is in sent.
AllRequestsLogged ==
    /\ nCreate > 0 => "create" \in EndpointsSent
    /\ nStatus > 0 => "status" \in EndpointsSent
    /\ mFetches + cFetches > 0 => "download" \in EndpointsSent
    /\ cpc = "callReturned" =>
          (IF call = "MonitorCrawlRequest" THEN "status"
           ELSE Endpoint(call)) \in EndpointsSent

\* C30: every request of every operation (list, get, create, stop,
\* results, download, the status request and each download of ScrapeURL and
\* of the goroutine) carries X-API-Key equal to the client's key,
\* Content-Type application/json and User-Agent WaterCrawl-Go-SDK.
C30_HeadersOnEveryRequest ==
    /\ AllRequestsLogged
    /\ \A r \in sent :
          /\ r.header.XAPIKey = apiKey
          /\ r.header.ContentType = "application/json"
          /\ r.header.UserAgent = "WaterCrawl-Go-SDK"

\* C30 witness: ScrapeURL has sent the create request, the status request
\* and a download request.
C30_Witness ==
    /\ call = "ScrapeURL"
    /\ EndpointsSent = {"create", "status", "download"}
    /\ mFetches + cFetches > 0

\* ScrapeURL receives an event in this step; Received is that event.
Receives == Len(delivered') = Len(delivered) + 1
Received == delivered'[Len(delivered')]

\* The kinds ScrapeURL's switch has a case for.
KnownKinds == {"result", "error", "progress", "state", "completed"}

\* ScrapeURL returns in this step from inside the range loop.
ReturnsInLoop ==
    /\ cpc \in {"recv", "fetchState", "fetchCompleted"}
    /\ cpc' = "returned"

\* The three ways out of the loop before the end of the stream.
OnResultObject ==
    Receives /\ Received.type = "result" /\ IsMap(Received.data)
OnStateCompletedOrFailed ==
    \/ /\ Receives
       /\ Received.type = "state"
       /\ IsMap(Received.data)
       /\ Received.data.status \in {S("completed"), S("failed")}
    \/ /\ cpc = "fetchState"
       /\ delivered[Len(delivered)].type = "state"
       /\ delivered[Len(delivered)].data.status = S("completed")
OnCompletedFetched ==
    /\ CompletedFetchEnds
    /\ delivered[Len(delivered)].type = "completed"
    /\ FetchedContent(downloadData')

NumericProgress(ev) == IsMap(ev.data) /\ ev.data.progress.t = "number"

FoldStep ==
    /\ Receives => eventCount' = eventCount + 1
    /\ ReturnsInLoop =>
          OnResultObject \/ OnStateCompletedOrFailed \/ OnCompletedFetched
    /\ (Receives /\ Received.type \in {"error", "progress"} \cup
                        ({e.type : e \in Events} \ KnownKinds)) =>
          /\ cpc' = "recv"
          /\ ret' = ret
          /\ cFetches' = cFetches
          /\ lastStateData' = lastStateData
          /\ lastError' = IF Received.type = "error" THEN Received.data
                          ELSE lastError
          /\ lastProgress' =
                IF Received.type = "progress" /\ NumericProgress(Received)
                THEN Received.data.progress.n ELSE lastProgress

\* C31: in ScrapeURL's loop every received event adds one to the event
\* count; an error event only replaces the last error, a progress event
\* only replaces the last progress and only when its payload is an object
\* with a numeric progress, an event of another kind changes nothing else,
\* and none of them ends the call; the call returns from inside the loop
\* only on a result event with an object payload, on a state event with
\* status completed or failed, or on a completed event whose download
\* returned a non-empty map without error.
C31_OnlyTerminalEventsTerminate == [][FoldStep]_vars

\* C31 witness: an error event and a numeric progress event were received,
\* both are remembered and counted, and the call is still receiving.
C31_Witness ==
    /\ delivered = <<EvError, EvProgress>>
    /\ cpc = "recv"
    /\ eventCount = 2
    /\ lastError = EvError.data
    /\ lastProgress = EvProgress.data.progress.n

\* The goroutine issues a read in this step: it leaves the loop-top select
\* by the default case and calls reader.ReadString.
ReadIssued == ppc # "read" /\ ppc' = "read"

NoReadIssuedOnceCancelled ==
    /\ ReadIssued => ppc = "top" /\ ~cancelled
    /\ (cancelled /\ ppc = "top") => ppc' \in {"top", "exit"}

\* C32: the goroutine issues a read only from the loop-top check and only
\* when that check finds ctx not cancelled; once ctx is cancelled it issues
\* no read, so after a hand-off or a download that overlapped the
\* cancellation it exits at the loop top or in the select on the send
\* (a read issued before the cancellation may still return its line).
C32_NoReadAfterCancel == [][NoReadIssuedOnceCancelled]_vars

\* C32 witness: ctx was cancelled, one event was handed off and the
\* goroutine left the loop without reading to the end of the stream.
C32_Witness ==
    /\ cancelled
    /\ ppc = "exit"
    /\ readEnd = "none"
    /\ Len(wire) = 1
    /\ Len(delivered) = 1

\* Every answer is possible for the download in flight, whatever the state
\* of ctx is.
AnyAnswerPossible ==
    /\ ppc = "download" =>
          \A resp \in Responses : ENABLED (ProducerDownloadDone /\ body' = resp)
    /\ cpc = "fetchState" =>
          \A resp \in Responses :
              ENABLED (ConsumerStateFetchDone /\ body' = resp)
    /\ cpc = "fetchCompleted" =>
          \A resp \in Responses :
              ENABLED (ConsumerCompletedFetchDone /\ body' = resp)

\* The goroutine frames an event in this step.
FramesEvent == Len(FramedEvents(wire')) = Len(FramedEvents(wire)) + 1

\* The received event makes ScrapeURL download.
ScrapeFetchDue(ev) ==
    /\ download
    /\ \/ ev.type = "completed"
       \/ ev.type = "state" /\ IsMap(ev.data) /\ ev.data.status = S("completed")

FetchIgnoresCtx ==
    /\ (FramesEvent /\ FetchDue(LastFramed')) =>
          ppc' = "download" /\ mFetches' = mFetches + 1
    /\ (Receives /\ ScrapeFetchDue(Received)) =>
          cpc' \in {"fetchState", "fetchCompleted"} /\ cFetches' = cFetches + 1
    /\ (MonitorFetchEnds \/ ScrapeFetchEnds) =>
          FetchReturned = DownloadCrawlRequest(body')

\* C33: the downloads of the goroutine and of ScrapeURL do not depend on
\* the caller's ctx: a download that is due is started whether or not ctx
\* is cancelled, every answer stays possible for it whether ctx was
\* cancelled before or during it, and what it returns is determined by the
\* answer alone.
C33_FetchIndependentOfCtx == []AnyAnswerPossible /\ [][FetchIgnoresCtx]_vars

\* C33 witness: the goroutine's download is in flight, started after ctx
\* was cancelled.
C33_Witness ==
    /\ cancelled
    /\ ppc = "download"
    /\ "monitor" \notin fetchCancelled

\* The events the goroutine decoded that were not received (yet).
Pending == Len(FramedEvents(wire)) - Len(delivered)

\* The goroutine holds a decoded event: downloading for it or in the send.
HoldsEvent == ppc = "download" \/ Emitting

SingleSlot ==
    /\ Pending \in {0, 1}
    /\ HoldsEvent => Pending = 1
    /\ ppc \in {"top", "read"} => Pending = 0

\* The goroutine reads a line in this step.
ReadsLine == wire' # wire

\* C34: the hand-off holds at most one event: the events decoded by the
\* goroutine are at most one more than the events received, exactly one
\* more while it holds an event, and it reads a line only when every
\* decoded event has been received.
C34_SingleSlotHandOff == []SingleSlot /\ [][ReadsLine => Pending = 0]_vars

\* C34 witness: the second decoded event waits in the send while ScrapeURL
\* is busy with the download for the first.
C34_Witness ==
    /\ ppc = "sendBlocked"
    /\ cpc \in {"fetchState", "fetchCompleted"}
    /\ Len(FramedEvents(wire)) = 2
    /\ Len(delivered) = 1

\* The channel is closed only by the goroutine's last step, after the body
\* was closed; a consumer past the end of the range has seen that close.
ClosedAfterRelease ==
    /\ chClosed <=> ppc = "done"
    /\ chClosed => closeCount = 1
    /\ cpc = "afterLoop" => chClosed /\ closeCount = 1

ClosingStep ==
    /\ chClosed => chClosed' /\ delivered' = delivered
    /\ (chClosed' /\ ~chClosed) => ppc = "closing" /\ closeCount = 1
    /\ ppc = "exit" => ppc' \in {"exit", "closing"}
    /\ ppc = "closing" => ppc' \in {"closing", "done"}

\* C35: on every way out of its loop the goroutine closes the channel, once,
\* after the body was closed, and nothing is received after the close; so a
\* consumer that sees the end of the sequence finds the body closed, and
\* ScrapeURL's range loop ends and the call returns once the goroutine has
\* left its loop.
C35_ChannelClosedAfterRelease ==
    /\ []ClosedAfterRelease
    /\ [][ClosingStep]_vars
    /\ (ppc = "exit") ~> (chClosed /\ (call = "ScrapeURL" => Returned))

\* C35 witness: ScrapeURL has seen the end of the sequence after a clean
\* EOF, with the body closed once and the channel closed.
C35_Witness ==
    /\ cpc = "afterLoop"
    /\ readEnd = "eof"
    /\ chClosed
    /\ closeCount = 1

\* The stream, as the transport yielded it up to the clean EOF: the lines
\* ended by a newline and the text after the last newline, if any.
Yielded == wire \o (IF tail = <<>> THEN <<>> ELSE <<tail>>)

\* ScrapeURL received until the channel was closed after a clean EOF, with
\* ctx never cancelled.
ReceivedToCleanEOF ==
    /\ call = "ScrapeURL"
    /\ cpc = "afterLoop"
    /\ readEnd = "eof"
    /\ ~cancelled

\* C36: when the stream ends with a clean EOF and the consumer received to
\* the end without a cancellation, every line with the data: marker and a
\* well-formed event was received, the last line included when it is not
\* ended by a newline.
C36_EveryFramedLineEmitted ==
    ReceivedToCleanEOF => Len(delivered) = Len(FramedEvents(Yielded))

\* A ScrapeURL call with sync true whose stream has reached EOF or a read
\* error, or whose ctx is cancelled.
StreamEndedOrCancelled ==
    /\ call = "ScrapeURL"
    /\ sync
    /\ cancelled \/ readEnd # "none"

\* The call has returned and the goroutine, if one was started, has closed
\* the channel.
ReturnedAndClosed == Returned /\ (ppc = "none" \/ chClosed)

\* C37: under fair scheduling of the caller and of the goroutine, with
\* every download ending and a server that may stay silent, a ScrapeURL
\* call with sync true returns once the stream has reached EOF or a read
\* error or ctx is cancelled, and the goroutine closes the channel; so it is
\* after a cancellation that finds the goroutine waiting in its read and
\* ScrapeURL waiting in its receive.
C37_ScrapeEventuallyReturns == StreamEndedOrCancelled ~> ReturnedAndClosed

\* C37 witness: ctx was cancelled before any event came, the read ended
\* with an error, the channel was closed and ScrapeURL returned that no
\* events were received.
C37_Witness ==
    /\ call = "ScrapeURL"
    /\ sync
    /\ cancelled
    /\ readEnd = "err"
    /\ wire = <<>>
    /\ chClosed
    /\ Returned
    /\ ret.err = ErrNoEvents

====
